---- MODULE Spec2Model ----
(***************************************************************************)
(* Loan cash-flow projection (loan_amort.py) and the IRR wrapper (irr.py). *)
(*                                                                         *)
(* Numbers.  The program computes in floating point; the model computes    *)
(* the same expressions in exact rational arithmetic.  A rational is a     *)
(* pair <<n, d>> in lowest terms with d > 0; <<0, 0>> stands for the       *)
(* nan/inf a numpy division by zero produces.                              *)
(*                                                                         *)
(* Series.  A numpy array / pandas column is a sequence; Python index i is *)
(* element i + 1.  None is the empty sequence: every array the program     *)
(* builds has at least the element of index 0.                             *)
(***************************************************************************)
EXTENDS Integers, Sequences, FiniteSets, TLC

\* ------------------------------------------------------------ arithmetic

Abs(x) == IF x < 0 THEN -x ELSE x

RECURSIVE Gcd(_, _)
Gcd(a, b) == IF b = 0 THEN a ELSE Gcd(b, a % b)

NaN == <<0, 0>>
IsNaN(x) == x[2] = 0

\* n/d in lowest terms, d # 0
Q(n, d) ==
    LET g == Gcd(Abs(n), Abs(d))
        s == IF d < 0 THEN -1 ELSE 1
    IN  <<s * (n \div g), s * (d \div g)>>

Zero == <<0, 1>>
One == <<1, 1>>
OfInt(k) == <<k, 1>>

Add(x, y) ==
    IF IsNaN(x) \/ IsNaN(y) THEN NaN
    ELSE LET g == Gcd(x[2], y[2])
         IN  Q(x[1] * (y[2] \div g) + y[1] * (x[2] \div g), (x[2] \div g) * y[2])

Neg(x) == <<-x[1], x[2]>>

Sub(x, y) == Add(x, Neg(y))

Mul(x, y) ==
    IF IsNaN(x) \/ IsNaN(y) THEN NaN
    ELSE LET g1 == Gcd(Abs(x[1]), y[2])
             g2 == Gcd(Abs(y[1]), x[2])
         IN  <<(x[1] \div g1) * (y[1] \div g2), (x[2] \div g2) * (y[2] \div g1)>>

\* numpy float division: a zero divisor yields inf/nan with a warning, no exception
Div(x, y) ==
    IF IsNaN(x) \/ IsNaN(y) \/ y[1] = 0 THEN NaN
    ELSE Mul(x, IF y[1] < 0 THEN <<-y[2], -y[1]>> ELSE <<y[2], y[1]>>)

\* x <= y; every comparison with nan is False
Leq(x, y) == ~IsNaN(x) /\ ~IsNaN(y) /\ x[1] * y[2] <= y[1] * x[2]

RECURSIVE Pow(_, _)
Pow(x, k) == IF k = 0 THEN One ELSE Mul(x, Pow(x, k - 1))

\* ------------------------------------------------------------ series

None == <<>>

\* s[i] of Python, for 0 <= i < len(s)
At(s, i) == s[i + 1]

\* np.zeros(n)
Zeros(n) == [i \in 1..n |-> Zero]

\* np.arange(0, n)
Arange(n) == [i \in 1..n |-> i - 1]

\* s with Python index i set to v
Put(s, i, v) == [s EXCEPT ![i + 1] = v]

\* s[a:] of Python, for 0 <= a
From(s, a) == IF a >= Len(s) THEN <<>> ELSE SubSeq(s, a + 1, Len(s))

\* s[:n] of Python, for n >= 0
Upto(s, n) == IF n >= Len(s) THEN s ELSE SubSeq(s, 1, n)

\* pandas Series.dropna(): the entries that are not NaN, in order
RECURSIVE dropna(_)
dropna(s) ==
    IF s = <<>> THEN <<>>
    ELSE IF IsNaN(Head(s)) THEN dropna(Tail(s))
    ELSE <<Head(s)>> \o dropna(Tail(s))

\* the one element of a singleton: The({ body : x \in {e} }) is body with x naming
\* the value of e, computed once (x = e, then body); nested, the assignments run
\* from the last line up
The(S) == CHOOSE v \in S : TRUE

\* ------------------------------------------------------------ bounds

\* the longest term of a modelled loan
MaxTerm == 19
\* the shortest term of a modelled loan
ShortTerm == 3
\* rows of the charge-off table
NumRows == 20

\* ------------------------------------------------------------ lookup tables

FREQ_PERIOD_MAP == ("D" :> 365) @@ ("M" :> 12) @@ ("3M" :> 4) @@ ("6M" :> 2) @@ ("Y" :> 1)

\* '-'.join([str(term), grade])
LookupKey(term, grade) == ToString(term) \o "-" \o grade

Half == Q(1, 2)
Quarter == Q(1, 4)

\* The charge-off sheet: one column per term-grade key, NumRows rows each.
ChargedOffSheet ==
    [ cols |-> << LookupKey(ShortTerm, "A"), LookupKey(MaxTerm, "A"),
                  LookupKey(MaxTerm - 1, "A"), LookupKey(MaxTerm - 2, "A"),
                  LookupKey(ShortTerm + 1, "A") >>,
      data |-> << [j \in 1..NumRows |-> IF j = 1 THEN Half ELSE IF j = 2 THEN Quarter
                                        ELSE IF j = 3 THEN Half ELSE Zero],
                  [j \in 1..NumRows |-> IF j = 1 THEN Half ELSE IF j = 2 THEN Quarter ELSE Zero],
                  [j \in 1..NumRows |-> IF j = 1 THEN Half ELSE Zero],
                  [j \in 1..NumRows |-> IF j = 3 THEN Quarter ELSE Zero],
                  [j \in 1..NumRows |-> IF j = 2 THEN Half ELSE IF j = 4 THEN One ELSE Zero] >> ]

\* The prepay sheet after the loader's clean-up: one column per term, MaxTerm rows,
\* a column shorter than the sheet padded with NaN.
PrepaySheet ==
    LET col(t, f(_)) == [j \in 1..MaxTerm |-> IF j <= t THEN f(j) ELSE NaN]
        halving(j) == Q(1, 2 ^ j)
        early(j) == IF j <= 2 THEN Half ELSE Zero
        first(j) == IF j = 1 THEN One ELSE Zero
        none(j) == Zero
    IN  (ShortTerm :> col(ShortTerm, halving))
     @@ (ShortTerm + 1 :> col(ShortTerm + 1, none))
     @@ (MaxTerm - 3 :> col(MaxTerm - 4, none))
     @@ (MaxTerm - 2 :> col(MaxTerm - 2, none))
     @@ (MaxTerm - 1 :> col(MaxTerm - 1, first))
     @@ (MaxTerm :> col(MaxTerm, early))

\* ------------------------------------------------------------ dates

\* A date is <<months since year 0, day of month>>.
Date(y, m, d) == <<12 * y + (m - 1), d>>

IsLeap(y) == y % 4 = 0 /\ (y % 100 # 0 \/ y % 400 = 0)

DaysInMonth(mi) ==
    LET m == (mi % 12) + 1
    IN  IF m = 2 THEN (IF IsLeap(mi \div 12) THEN 29 ELSE 28)
        ELSE IF m \in {4, 6, 9, 11} THEN 30 ELSE 31

RECURSIVE AddDays(_, _)
AddDays(t, n) ==
    IF n = 0 THEN t
    ELSE IF t[2] < DaysInMonth(t[1]) THEN AddDays(<<t[1], t[2] + 1>>, n - 1)
    ELSE AddDays(<<t[1] + 1, 1>>, n - 1)

\* pd.date_range(start=start, periods=nper, freq=freq): calendar days for 'D', else
\* period ends (month ends every 1, 3 or 6 months, year ends) from the first one on
\* or after start
date_range(start, nper, freq) ==
    LET step == IF freq = "M" THEN 1 ELSE IF freq = "3M" THEN 3 ELSE IF freq = "6M" THEN 6 ELSE 12
        m0 == IF freq = "Y" THEN 12 * (start[1] \div 12) + 11 ELSE start[1]
    IN  IF freq = "D" THEN [j \in 1..nper |-> AddDays(start, j - 1)]
        ELSE [j \in 1..nper |-> <<m0 + step * (j - 1), DaysInMonth(m0 + step * (j - 1))>>]

\* ------------------------------------------------------------ Loan

\* charge_off_col_num values: None, an int, or something else a caller passes
PyNone == [type |-> "NoneType", val |-> 0]
PyInt(k) == [type |-> "int", val |-> k]
PyFloat(q) == [type |-> "float", val |-> q]
PyStr(s) == [type |-> "str", val |-> s]

\* bool(x) of Python
Truthy(x) ==
    CASE x.type = "NoneType" -> FALSE
      [] x.type = "int" -> x.val # 0
      [] x.type = "float" -> x.val[1] # 0
      [] x.type = "str" -> x.val # ""

Loan(grade, issue_date, term, coupon, invested, recov_rate, premium, serv_fee, earnout_fee, amort_freq, charge_off_col_num) ==
    [ grade |-> grade, issue_date |-> issue_date, term |-> term, coupon |-> coupon,
      invested |-> invested, recovery_rate |-> recov_rate, premium |-> premium,
      servicing_fee |-> serv_fee, earnout_fee |-> earnout_fee, amort_freq |-> amort_freq,
      charge_off_lookup_key |-> LookupKey(term, grade),
      charge_off_col_num |-> charge_off_col_num ]

\* ------------------------------------------------------------ state

VARIABLES
    CHARGED_OFF,    \* input.CHARGED_OFF, the module-level charge-off DataFrame
    PREPAY,         \* input.PREPAY, the module-level prepay DataFrame
    cf,             \* the Amortization instance in use
    current,        \* the loan (an index of Loans) this instance was created for
    call,           \* the last call made: its name, its argument, how it ended
    ret,            \* what the last call returned (a DataFrame for calc_cashflows)
    hist,           \* the last calc_cashflows that returned: loan, multipliers, DataFrame,
                    \* and whether it repeated the one before it
    solver,         \* what opt.broyden1 did in the last irr call
    irrOut          \* what the last irr call handed to its caller

vars == <<CHARGED_OFF, PREPAY, cf, current, call, ret, hist, solver, irrOut>>

\* Amortization(): the dataclass defaults
Amortization ==
    [ pmt_cnt |-> None, pmt_date |-> None, scheduled_principal |-> None,
      scheduled_interest |-> None, scheduled_balance |-> None, prepay_speed |-> None,
      default_rate |-> None, recovery |-> None, servicing_cf |-> None, earout_cf |-> None,
      balance |-> None, principle |-> None, default |-> None, prepay |-> None,
      interest |-> None, total_cf |-> None,
      _default_multiplier |-> One, _prepay_multiplier |-> One ]

\* How a method ends: the instance as it leaves it, and "ok" or the exception raised
\* with the line of loan_amort.py that raised it (the innermost line of the traceback).
Ok(self) == [self |-> self, err |-> "ok", line |-> 0]
Raise(self, e, line) == [self |-> self, err |-> e, line |-> line]

\* ------------------------------------------------------------ Amortization methods

payment_date(self, start_date, periods, freq) ==
    LET nper == periods + 1
        rng == date_range(start_date, nper, freq)
        s1 == [self EXCEPT !.pmt_date = rng]
    IN  IF start_date[2] # rng[1][2]
        THEN IF \E j \in 1..nper : start_date[2] > DaysInMonth(rng[j][1])
             THEN Raise(s1, "ValueError", 114)      \* t.replace(day=...) out of range
             ELSE Ok([self EXCEPT !.pmt_date = [j \in 1..nper |-> <<rng[j][1], start_date[2]>>]])
        ELSE Ok(s1)

\* the prepay series allocated once and added to on every later fetch
fetch_prepay_speed_accumulating(self, nper) ==
    IF nper \notin DOMAIN PREPAY THEN Raise(self, "KeyError", 124)
    ELSE LET col == dropna(PREPAY[nper])
             base == IF self.prepay_speed # None /\ Len(self.prepay_speed) = nper + 1
                     THEN self.prepay_speed ELSE Zeros(nper + 1)
         IN  IF Len(col) = nper
             THEN Ok([self EXCEPT !.prepay_speed =
                          [j \in 1..(nper + 1) |-> IF j = 1 THEN base[1]
                                                   ELSE Add(base[j], col[j - 1])]])
             ELSE Raise([self EXCEPT !.prepay_speed = base], "ValueError", 128)

fetch_prepay_speed(self, nper) ==
    IF nper \notin DOMAIN PREPAY THEN Raise(self, "KeyError", 124)
    ELSE LET col == dropna(PREPAY[nper])
             s1 == [self EXCEPT !.prepay_speed = Zeros(nper + 1)]
         IN  \* numpy assigns a value of the slice's length, or broadcasts a single one
             IF Len(col) = nper THEN Ok([self EXCEPT !.prepay_speed = <<Zero>> \o col])
             ELSE IF Len(col) = 1
                  THEN Ok([self EXCEPT !.prepay_speed = <<Zero>> \o [j \in 1..nper |-> col[1]]])
             ELSE Raise(s1, "ValueError", 128)

\* the default-rate column without its last row
fetch_default_rate_truncated(self, chargeoff_col) ==
    LET width == Len(CHARGED_OFF.cols)
        cut(col) == SubSeq(col, 1, Len(col) - 1)
    IN  IF chargeoff_col.type = "int"
        THEN IF chargeoff_col.val >= width THEN Raise(self, "ValueError", 141)
             ELSE IF chargeoff_col.val < -width THEN Raise(self, "IndexError", 143)
             ELSE Ok([self EXCEPT !.default_rate =
                          cut(CHARGED_OFF.data[(chargeoff_col.val % width) + 1])])
        ELSE IF chargeoff_col.type = "str"
        THEN IF ~\E c \in 1..width : CHARGED_OFF.cols[c] = chargeoff_col.val
             THEN Raise(self, "KeyError", 146)
             ELSE Ok([self EXCEPT !.default_rate =
                          cut(CHARGED_OFF.data[CHOOSE c \in 1..width :
                                                   CHARGED_OFF.cols[c] = chargeoff_col.val])])
        ELSE Raise(self, "KeyError", 150)

fetch_default_rate(self, chargeoff_col) ==
    LET width == Len(CHARGED_OFF.cols)
    IN  IF chargeoff_col.type = "int"
        THEN IF chargeoff_col.val >= width THEN Raise(self, "ValueError", 141)
             ELSE IF chargeoff_col.val < -width THEN Raise(self, "IndexError", 143)
             ELSE Ok([self EXCEPT !.default_rate =
                          CHARGED_OFF.data[(chargeoff_col.val % width) + 1]])
        ELSE IF chargeoff_col.type = "str"
        THEN IF ~\E c \in 1..width : CHARGED_OFF.cols[c] = chargeoff_col.val
             THEN Raise(self, "KeyError", 146)
             ELSE Ok([self EXCEPT !.default_rate =
                          CHARGED_OFF.data[CHOOSE c \in 1..width :
                                               CHARGED_OFF.cols[c] = chargeoff_col.val]])
        ELSE Raise(self, "KeyError", 150)

\* numpy_financial.pmt(rate, nper, pv) with fv = 0, when = 'end'
npf_pmt(rate, nper, pv) ==
    LET temp == Pow(Add(One, rate), nper)
        fact == IF rate = Zero THEN OfInt(nper) ELSE Div(Sub(temp, One), rate)
    IN  Neg(Div(Mul(pv, temp), fact))

\* numpy_financial.fv(rate, nper, pmt, pv) with when = 'end'
npf_fv(rate, nper, pmt, pv) ==
    IF rate = Zero THEN Neg(Add(pv, Mul(pmt, OfInt(nper))))
    ELSE LET temp == Pow(Add(One, rate), nper)
         IN  Neg(Add(Mul(pv, temp), Mul(Div(pmt, rate), Sub(temp, One))))

\* numpy_financial.ipmt: the balance remaining after per - 1 payments, times rate
npf_ipmt(rate, per, nper, pv) == Mul(npf_fv(rate, per - 1, npf_pmt(rate, nper, pv), pv), rate)

\* numpy_financial.ppmt: the payment less its interest part
npf_ppmt(rate, per, nper, pv) == Sub(npf_pmt(rate, nper, pv), npf_ipmt(rate, per, nper, pv))

RECURSIVE ScheduledBalance(_, _, _)
\* the loop of calc_scheduled_cashflow: bal[i] = bal[i-1] - scheduled_principal[i]
ScheduledBalance(bal, principal, i) ==
    IF i >= Len(bal) THEN bal
    ELSE ScheduledBalance(Put(bal, i, Sub(At(bal, i - 1), At(principal, i))), principal, i + 1)

calc_scheduled_cashflow(self, loan) ==
    LET rate == Div(loan.coupon, OfInt(FREQ_PERIOD_MAP[loan.amort_freq]))
        nper == loan.term
        pv == Neg(loan.invested)
        nper_1 == nper + 1
        interest == [i \in 1..nper_1 |-> IF i = 1 THEN Zero ELSE npf_ipmt(rate, i - 1, nper, pv)]
    IN  The({
        Ok([self EXCEPT !.pmt_cnt = Arange(nper_1),
                        !.scheduled_principal = principal,
                        !.scheduled_interest = interest,
                        !.scheduled_balance =
                            ScheduledBalance(Put(Zeros(nper_1), 0, loan.invested), principal, 1)])
          : principal \in {[i \in 1..nper_1 |-> IF i = 1 THEN Zero ELSE npf_ppmt(rate, i - 1, nper, pv)]} })

\* The two earnout periods of calc_default_prepay_adjust_cashflow
EARNOUT_PERIOD_1 == 12
EARNOUT_PERIOD_2 == 18

\* default[i] = balance[i-1] * default_rate[i-1] * _default_multiplier
default_at(self, i) ==
    Mul(Mul(At(self.balance, i - 1), At(self.default_rate, i - 1)), self._default_multiplier)

\* the prepayment as the docstring has it, on the prior period's speed
prepay_at_prior_speed(self, i) ==
    LET b == At(self.balance, i - 1)
        share == Mul(Div(Sub(b, At(self.scheduled_interest, i)), At(self.scheduled_balance, i - 1)),
                     At(self.scheduled_principal, i))
    IN  Mul(Mul(Sub(b, share), At(self.prepay_speed, i - 1)), self._prepay_multiplier)

\* prepay[i] = (balance[i-1] - (balance[i-1] - scheduled_interest[i]) / scheduled_balance[i-1]
\*              * scheduled_principal[i]) * prepay_speed[i] * _prepay_multiplier
prepay_at(self, i) ==
    LET b == At(self.balance, i - 1)
        share == Mul(Div(Sub(b, At(self.scheduled_interest, i)), At(self.scheduled_balance, i - 1)),
                     At(self.scheduled_principal, i))
    IN  Mul(Mul(Sub(b, share), At(self.prepay_speed, i)), self._prepay_multiplier)

\* the principal scaled by the whole prior balance, defaults not taken out
principle_at_gross(self, i) ==
    Add(Div(Mul(At(self.balance, i - 1), At(self.scheduled_principal, i)),
            At(self.scheduled_balance, i - 1)),
        At(self.prepay, i))

\* principle[i] = (balance[i-1] - default[i]) * scheduled_principal[i] / scheduled_balance[i-1]
\*                + prepay[i]
principle_at(self, i) ==
    Add(Div(Mul(Sub(At(self.balance, i - 1), At(self.default, i)), At(self.scheduled_principal, i)),
            At(self.scheduled_balance, i - 1)),
        At(self.prepay, i))

\* balance[i] = balance[i-1] - principle[i] - default[i]
balance_at(self, i) ==
    Sub(Sub(At(self.balance, i - 1), At(self.principle, i)), At(self.default, i))

\* interest[i] = (balance[i-1] - default[i]) * rate
interest_at(self, i, rate) == Mul(Sub(At(self.balance, i - 1), At(self.default, i)), rate)

\* the loop body taking a missing default-rate series as no defaults
AdjustPeriod_lenient(self, i, rate) ==
    The({
    IF self.prepay_speed = None THEN Raise(s1, "TypeError", 199)
    ELSE IF i >= Len(self.prepay_speed) THEN Raise(s1, "IndexError", 199)
    ELSE
    The({
    The({
    The({
    Ok([s4 EXCEPT !.interest = Put(@, i, interest_at(s4, i, rate))])
      : s4 \in {[s3 EXCEPT !.balance = Put(@, i, balance_at(s3, i))]} })
      : s3 \in {[s2 EXCEPT !.principle = Put(@, i, principle_at(s2, i))]} })
      : s2 \in {[s1 EXCEPT !.prepay = Put(@, i, prepay_at(s1, i))]} })
      : s1 \in {IF self.default_rate = None \/ i - 1 >= Len(self.default_rate) THEN self ELSE [self EXCEPT !.default = Put(@, i, default_at(self, i))]} })

\* One pass of the loop body for period i; a subscript of None is a TypeError, a
\* subscript past the end an IndexError, raised before the assignment it stands in.
AdjustPeriod(self, i, rate) ==
    IF self.default_rate = None THEN Raise(self, "TypeError", 198)
    ELSE IF i - 1 >= Len(self.default_rate) THEN Raise(self, "IndexError", 198)
    ELSE
    The({
    IF self.prepay_speed = None THEN Raise(s1, "TypeError", 199)
    ELSE IF i >= Len(self.prepay_speed) THEN Raise(s1, "IndexError", 199)
    ELSE
    The({
    The({
    The({
    Ok([s4 EXCEPT !.interest = Put(@, i, interest_at(s4, i, rate))])
      : s4 \in {[s3 EXCEPT !.balance = Put(@, i, balance_at(s3, i))]} })
      : s3 \in {[s2 EXCEPT !.principle = Put(@, i, principle_at(s2, i))]} })
      : s2 \in {[s1 EXCEPT !.prepay = Put(@, i, prepay_at(s1, i))]} })
      : s1 \in {[self EXCEPT !.default = Put(@, i, default_at(self, i))]} })

RECURSIVE AdjustLoop(_, _, _, _)
\* for i in range(1, nper)
AdjustLoop(self, i, nper, rate) ==
    IF i >= nper THEN Ok(self)
    ELSE The({
             IF r.err # "ok" THEN r ELSE AdjustLoop(r.self, i + 1, nper, rate)
           : r \in {AdjustPeriod(self, i, rate)} })

\* servicing_cf[1:] = (balance[0:-1] - default[1:]) * servicing_fee / nper_per_year
ServicingCf(self, loan, nper, nper_per_year) ==
    [i \in 1..nper |->
        IF i = 1 THEN Zero
        ELSE Div(Mul(Sub(self.balance[i - 1], self.default[i]), loan.servicing_fee),
                 OfInt(nper_per_year))]

\* the earnout skipping the periods a short term does not have
EarnoutCf_guarded(self, loan, nper) ==
    LET fee == Mul(Div(loan.earnout_fee, OfInt(2)), loan.invested)
    IN  Ok([self EXCEPT !.earout_cf =
                [i \in 1..nper |-> IF i - 1 \in {EARNOUT_PERIOD_1, EARNOUT_PERIOD_2}
                                   THEN fee ELSE Zero]])

\* earout_cf = zeros; earout_cf[12] = earout_cf[18] = earnout_fee / 2 * invested:
\* index 12 is assigned first, then index 18
EarnoutCf(self, loan, nper) ==
    LET fee == Mul(Div(loan.earnout_fee, OfInt(2)), loan.invested)
        s0 == [self EXCEPT !.earout_cf = Zeros(nper)]
    IN  IF EARNOUT_PERIOD_1 >= nper THEN Raise(s0, "IndexError", 211)
        ELSE LET s1 == [s0 EXCEPT !.earout_cf = Put(@, EARNOUT_PERIOD_1, fee)]
             IN  IF EARNOUT_PERIOD_2 >= nper THEN Raise(s1, "IndexError", 211)
                 ELSE Ok([s1 EXCEPT !.earout_cf = Put(@, EARNOUT_PERIOD_2, fee)])

\* the total without the override of index 0
TotalCf_no_outflow(self, loan, nper) ==
    [i \in 1..nper |->
        Sub(Sub(Add(Add(self.principle[i], self.interest[i]), self.recovery[i]),
                self.servicing_cf[i]),
            self.earout_cf[i])]

\* total_cf = principle + interest + recovery - servicing_cf - earout_cf, then
\* total_cf[0] = -invested * (1 + premium)
TotalCf(self, loan, nper) ==
    [i \in 1..nper |->
        IF i = 1 THEN Mul(Neg(loan.invested), Add(One, loan.premium))
        ELSE Sub(Sub(Add(Add(self.principle[i], self.interest[i]), self.recovery[i]),
                     self.servicing_cf[i]),
                 self.earout_cf[i])]

calc_default_prepay_adjust_cashflow(self, loan) ==
    IF self.pmt_cnt = None THEN Raise(self, "TypeError", 184)   \* raise of a str
    ELSE
    LET nper == Len(self.pmt_cnt)
        nper_per_year == FREQ_PERIOD_MAP[loan.amort_freq]
        rate == Div(loan.coupon, OfInt(nper_per_year))
        s0 == [self EXCEPT !.balance = Put(Zeros(nper), 0, At(self.scheduled_balance, 0)),
                           !.default = Zeros(nper), !.prepay = Zeros(nper),
                           !.principle = Zeros(nper), !.interest = Zeros(nper)]
    IN  The({
        IF loop.err # "ok" THEN loop
        ELSE
        The({
        The({
        IF earn.err # "ok" THEN earn
        ELSE Ok([earn.self EXCEPT !.total_cf = TotalCf(earn.self, loan, nper)])
          : earn \in {EarnoutCf(s1, loan, nper)} })
          : s1 \in {[loop.self EXCEPT
                        !.recovery = [i \in 1..nper |-> Mul(loop.self.default[i], loan.recovery_rate)],
                        !.servicing_cf = ServicingCf(loop.self, loan, nper, nper_per_year)]} })
          : loop \in {AdjustLoop(s0, 1, nper, rate)} })

\* ------------------------------------------------------------ the DataFrame

Columns ==
    { "Months", "Paymnt_Count", "Payment_Date", "Scheduled_Principal", "Scheduled_Interest",
      "Scheduled_Balance", "Prepay_Speed", "Default_Rate", "Recovery", "Servicing_CF",
      "Earnout_CF", "Balance", "Principal", "Default", "Prepay", "Interest_Amount", "Total_CF" }

\* no DataFrame: what a call that raised hands back
NoFrame == [c \in Columns |-> None]

\* to_dataframe: len(None) and None[:n] are TypeErrors; pandas refuses columns of
\* different lengths with a ValueError and spreads a None over the rows
to_dataframe(self) ==
    IF self.pmt_date = None THEN [err |-> "TypeError", line |-> 239, ret |-> NoFrame]
    ELSE IF self.default_rate = None THEN [err |-> "TypeError", line |-> 248, ret |-> NoFrame]
    ELSE
    LET n == Len(self.pmt_date)
        field_dict ==
            [ Months |-> [i \in 1..n |-> i],
              Paymnt_Count |-> self.pmt_cnt,
              Payment_Date |-> self.pmt_date,
              Scheduled_Principal |-> self.scheduled_principal,
              Scheduled_Interest |-> self.scheduled_interest,
              Scheduled_Balance |-> self.scheduled_balance,
              Prepay_Speed |-> self.prepay_speed,
              Default_Rate |-> Upto(self.default_rate, n),
              Recovery |-> self.recovery,
              Servicing_CF |-> self.servicing_cf,
              Earnout_CF |-> self.earout_cf,
              Balance |-> self.balance,
              Principal |-> self.principle,
              Default |-> self.default,
              Prepay |-> self.prepay,
              Interest_Amount |-> self.interest,
              Total_CF |-> self.total_cf ]
    IN  IF \E c \in Columns : field_dict[c] # None /\ Len(field_dict[c]) # n
        THEN [err |-> "ValueError", line |-> 259, ret |-> NoFrame]
        ELSE [err |-> "ok", line |-> 0,
              ret |-> [c \in Columns |-> IF field_dict[c] = None THEN [i \in 1..n |-> NaN]
                                          ELSE field_dict[c]]]

\* ------------------------------------------------------------ the orchestration

\* step 2 of calc_cashflows: which selector goes to fetch_default_rate
ChargeOffSelector(loan) ==
    IF Truthy(loan.charge_off_col_num) THEN loan.charge_off_col_num
    ELSE PyStr(loan.charge_off_lookup_key)

Failed(r) == [self |-> r.self, err |-> r.err, line |-> r.line, ret |-> NoFrame]

\* the orchestration building the payment dates before it looks anything up
calc_cashflows_dates_first(self, loan) ==
    The({
    IF r3.err # "ok" THEN Failed(r3) ELSE
    The({
    IF r1.err # "ok" THEN Failed(r1) ELSE
    The({
    IF r2.err # "ok" THEN Failed(r2) ELSE
    The({
    IF r4.err # "ok" THEN Failed(r4) ELSE
    The({
    IF r5.err # "ok" THEN Failed(r5) ELSE
    The({
    [self |-> r5.self, err |-> df.err, line |-> df.line, ret |-> df.ret]
      : df \in {to_dataframe(r5.self)} })
      : r5 \in {calc_default_prepay_adjust_cashflow(r4.self, loan)} })
      : r4 \in {calc_scheduled_cashflow(r2.self, loan)} })
      : r2 \in {fetch_default_rate(r1.self, ChargeOffSelector(loan))} })
      : r1 \in {fetch_prepay_speed(r3.self, loan.term)} })
      : r3 \in {payment_date(self, loan.issue_date, loan.term, loan.amort_freq)} })

calc_cashflows(self, loan) ==
    The({
    IF r1.err # "ok" THEN Failed(r1) ELSE
    The({
    IF r2.err # "ok" THEN Failed(r2) ELSE
    The({
    IF r3.err # "ok" THEN Failed(r3) ELSE
    The({
    IF r4.err # "ok" THEN Failed(r4) ELSE
    The({
    IF r5.err # "ok" THEN Failed(r5) ELSE
    The({
    [self |-> r5.self, err |-> df.err, line |-> df.line, ret |-> df.ret]
      : df \in {to_dataframe(r5.self)} })
      : r5 \in {calc_default_prepay_adjust_cashflow(r4.self, loan)} })
      : r4 \in {calc_scheduled_cashflow(r3.self, loan)} })
      : r3 \in {payment_date(r2.self, loan.issue_date, loan.term, loan.amort_freq)} })
      : r2 \in {fetch_default_rate(r1.self, ChargeOffSelector(loan))} })
      : r1 \in {fetch_prepay_speed(self, loan.term)} })

\* ------------------------------------------------------------ irr.py

\* npv(r) = sum(cashflow / (1 + r) ** periods), periods = 0, 1, ...
RECURSIVE NpvFrom(_, _, _)
NpvFrom(cashflow, r, t) ==
    IF t > Len(cashflow) THEN Zero
    ELSE Add(Div(cashflow[t], Pow(Add(One, r), t - 1)), NpvFrom(cashflow, r, t + 1))

npv(cashflow, r) == NpvFrom(cashflow, r, 1)

\* |v| <= f_tol with f_tol = 1e-10: a rational of the model has a denominator below
\* 2^31, so it is within 1e-10 of zero only when it is zero
WithinTol(v) == ~IsNaN(v) /\ v[1] = 0

\* the rates the root-finder may stop at
Rates == { Q(-1, 2), Zero, Q(1, 10), Half, One }

\* opt.broyden1(npv, guess, f_tol=1e-10): it returns a rate whose residual is within
\* f_tol, or raises NoConvergence carrying the estimate it stopped at
broyden1(cashflow, guess) ==
    { [converged |-> TRUE, x |-> x] : x \in { y \in Rates \cup {guess} : WithinTol(npv(cashflow, y)) } }
    \cup { [converged |-> FALSE, x |-> x] : x \in Rates \cup {guess} }

\* irr without its except clause: NoConvergence reaches the caller
irr_uncaught(outcome) ==
    IF outcome.converged
    THEN [err |-> "ok", r |-> outcome.x, warned |-> FALSE]
    ELSE [err |-> "NoConvergence", r |-> Zero, warned |-> FALSE]

\* the try/except of irr around one outcome of the solver
irr(outcome) ==
    IF outcome.converged
    THEN [err |-> "ok", r |-> outcome.x, warned |-> FALSE]
    ELSE [err |-> "ok", r |-> outcome.x, warned |-> TRUE]    \* r = e.args[0]; logging.warning

CashFlows ==
    << <<OfInt(-100), OfInt(110)>>,
       <<OfInt(-4), Zero, OfInt(9)>>,
       <<OfInt(-100), OfInt(100), Zero, OfInt(-7)>>,
       <<OfInt(-1), OfInt(-1)>>,
       <<OfInt(-8), OfInt(4), OfInt(8)>>,
       <<OfInt(-2), OfInt(1), OfInt(1)>> >>

\* ------------------------------------------------------------ the loans

IssueDate == Date(2015, 8, 24)

\* a loan of `term` payments at coupon 0, on the charge-off column its selector names
PlainLoan(term, grade, col) ==
    Loan(grade, IssueDate, term, Zero, OfInt(8), Half, Quarter, Q(3, 2), Half, "M", col)

\* a loan at 100% per period (coupon 12, monthly), whose schedule is in whole units
SteepLoan(term) ==
    Loan("A", IssueDate, term, OfInt(12), OfInt(2 ^ term - 1), Half, Quarter, Q(3, 2), Half,
         "M", PyNone)

Loans ==
    << PlainLoan(MaxTerm, "A", PyNone),
       PlainLoan(MaxTerm - 1, "A", PyNone),
       PlainLoan(MaxTerm - 2, "A", PyNone),
       PlainLoan(MaxTerm - 3, "A", PyNone),
       SteepLoan(ShortTerm),
       SteepLoan(ShortTerm + 1),
       PlainLoan(MaxTerm, "Z", PyNone),
       PlainLoan(MaxTerm + 1, "A", PyNone),
       PlainLoan(MaxTerm, "A", PyInt(0)),
       PlainLoan(MaxTerm, "A", PyInt(2)),
       PlainLoan(MaxTerm, "A", PyInt(Len(ChargedOffSheet.cols))),
       PlainLoan(MaxTerm, "A", PyFloat(Q(3, 2))),
       PlainLoan(MaxTerm - 1, "A", PyInt(-1)) >>

DefaultMultipliers == { One, Half }
PrepayMultipliers == { One, OfInt(2) }

\* the loans whose methods are also called one at a time
StepLoans == 1..6

\* first guesses of irr
Guesses == { Zero, Quarter, OfInt(3) }

\* ------------------------------------------------------------ actions

NoCall == [op |-> "none", err |-> "ok", line |-> 0]
NoHist == [loan |-> 0, dm |-> One, pm |-> One, ret |-> NoFrame, again |-> FALSE]
NoSolve == [cashflow |-> 0, guess |-> Zero, converged |-> TRUE, x |-> Zero]
NoIrr == [err |-> "ok", r |-> Zero, warned |-> FALSE]

Init ==
    /\ CHARGED_OFF = ChargedOffSheet
    /\ PREPAY = PrepaySheet
    /\ cf = Amortization
    /\ current \in 1..Len(Loans)
    /\ call = NoCall
    /\ ret = NoFrame
    /\ hist = NoHist
    /\ solver = NoSolve
    /\ irrOut = NoIrr

\* cf = Amortization(), for current k; hist follows one current at a time
NewAmortization(k) ==
    /\ cf' = Amortization
    /\ current' = k
    /\ call' = [op |-> "Amortization", err |-> "ok", line |-> 0]
    /\ ret' = NoFrame
    /\ hist' = IF hist.loan = k THEN hist ELSE NoHist
    /\ UNCHANGED <<CHARGED_OFF, PREPAY, solver, irrOut>>

\* cf.default_multiplier = val
SetDefaultMultiplier(val) ==
    /\ cf' = [cf EXCEPT !._default_multiplier = val]
    /\ call' = [op |-> "default_multiplier", err |-> "ok", line |-> 0]
    /\ ret' = NoFrame
    /\ UNCHANGED <<CHARGED_OFF, PREPAY, current, hist, solver, irrOut>>

\* cf.prepay_multiplier = val
SetPrepayMultiplier(val) ==
    /\ cf' = [cf EXCEPT !._prepay_multiplier = val]
    /\ call' = [op |-> "prepay_multiplier", err |-> "ok", line |-> 0]
    /\ ret' = NoFrame
    /\ UNCHANGED <<CHARGED_OFF, PREPAY, current, hist, solver, irrOut>>

\* cf.calc_cashflows(loan)
CalcCashflows ==
    \E res \in {calc_cashflows(cf, Loans[current])} :
        /\ cf' = res.self
        /\ call' = [op |-> "calc_cashflows", err |-> res.err, line |-> res.line]
        /\ ret' = res.ret
        /\ hist' = IF res.err = "ok"
                   THEN [loan |-> current, dm |-> cf._default_multiplier,
                         pm |-> cf._prepay_multiplier, ret |-> res.ret,
                         again |-> /\ hist.loan = current
                                   /\ hist.dm = cf._default_multiplier
                                   /\ hist.pm = cf._prepay_multiplier]
                   ELSE hist
        /\ UNCHANGED <<CHARGED_OFF, PREPAY, current, solver, irrOut>>

\* one method of the instance called on its own; res is how it ended
Step(op, res) ==
    /\ cf' = res.self
    /\ call' = [op |-> op, err |-> res.err, line |-> res.line]
    /\ ret' = NoFrame
    /\ UNCHANGED <<CHARGED_OFF, PREPAY, current, hist, solver, irrOut>>

FetchPrepaySpeed ==
    \E res \in {fetch_prepay_speed(cf, Loans[current].term)} : Step("fetch_prepay_speed", res)

\* by the current's lookup key, or by an explicit column
FetchDefaultRate(sel) ==
    \E res \in {fetch_default_rate(cf, sel)} : Step("fetch_default_rate", res)

PaymentDate ==
    \E res \in {payment_date(cf, Loans[current].issue_date, Loans[current].term, Loans[current].amort_freq)} :
        Step("payment_date", res)

CalcScheduledCashflow ==
    \E res \in {calc_scheduled_cashflow(cf, Loans[current])} : Step("calc_scheduled_cashflow", res)

CalcDefaultPrepayAdjustCashflow ==
    \E res \in {calc_default_prepay_adjust_cashflow(cf, Loans[current])} :
        Step("calc_default_prepay_adjust_cashflow", res)

\* irr(CashFlows[c], guess)
Irr(c, guess) ==
    \E outcome \in broyden1(CashFlows[c], guess) :
        /\ solver' = [cashflow |-> c, guess |-> guess, converged |-> outcome.converged,
                      x |-> outcome.x]
        /\ irrOut' = irr(outcome)
        /\ call' = [op |-> "irr", err |-> irr(outcome).err, line |-> 0]
        /\ UNCHANGED <<CHARGED_OFF, PREPAY, cf, current, ret, hist>>

\* ------------------------------------------------------------ specifications

\* the orchestration: instances, multipliers, whole computations
Next ==
    \/ \E k \in 1..Len(Loans) : NewAmortization(k)
    \/ \E v \in DefaultMultipliers : SetDefaultMultiplier(v)
    \/ \E v \in PrepayMultipliers : SetPrepayMultiplier(v)
    \/ CalcCashflows

Spec == Init /\ [][Next]_vars

\* the methods of an instance called one at a time, in any order
NextSteps ==
    \/ \E k \in StepLoans : NewAmortization(k)
    \/ \E v \in DefaultMultipliers : SetDefaultMultiplier(v)
    \/ \E v \in PrepayMultipliers : SetPrepayMultiplier(v)
    \/ FetchPrepaySpeed
    \/ \E sel \in {PyStr(Loans[current].charge_off_lookup_key), PyInt(0)} : FetchDefaultRate(sel)
    \/ PaymentDate
    \/ CalcScheduledCashflow
    \/ CalcDefaultPrepayAdjustCashflow

InitSteps == Init /\ current \in StepLoans

SpecSteps == InitSteps /\ [][NextSteps]_vars

\* irr on its own
NextIrr == \E c \in 1..Len(CashFlows), guess \in Guesses : Irr(c, guess)

InitIrr == Init /\ current = 1

SpecIrr == InitIrr /\ [][NextIrr]_vars

\* ------------------------------------------------------------ properties

\* the loan of the instance, and its term
TheLoan == Loans[current]
Term == TheLoan.term

AdjustCall == call.op = "calc_default_prepay_adjust_cashflow"
CalcCall == call.op = "calc_cashflows"
CalcOk == CalcCall /\ call.err = "ok"

\* the recurrence was called with every series it reads in place and long enough
InputsReady ==
    /\ AdjustCall
    /\ cf.pmt_cnt # None /\ Len(cf.pmt_cnt) = Term + 1
    /\ cf.default_rate # None /\ Len(cf.default_rate) >= Term
    /\ cf.prepay_speed # None /\ Len(cf.prepay_speed) >= Term + 1

IsZero(x) == x = Zero
Positive(x) == ~IsNaN(x) /\ x[1] > 0
NonNegative(x) == Leq(Zero, x)
IsFraction(x) == Leq(Zero, x) /\ Leq(x, One)

C2_SeedRow ==
    CalcOk =>
        /\ ret.Balance[1] = TheLoan.invested
        /\ cf.balance[1] = TheLoan.invested
        /\ \A c \in {"Default", "Prepay", "Principal", "Interest_Amount", "Recovery",
                     "Servicing_CF", "Earnout_CF"} : ret[c][1] = Zero
        /\ \A f \in {"default", "prepay", "principle", "interest", "recovery",
                     "servicing_cf", "earout_cf"} : cf[f][1] = Zero
        /\ ret.Total_CF[1] = Neg(Add(TheLoan.invested, Mul(TheLoan.invested, TheLoan.premium)))
        /\ cf.total_cf[1] = ret.Total_CF[1]

\* a computation that returned with a default multiplier off 1 and defaults in it
C2_Witness ==
    /\ CalcOk
    /\ cf._default_multiplier # One
    /\ \E i \in 1..Term : ~IsZero(At(cf.default, i))

\* C3 as claimed: the recurrence fails whenever the scheduled amortization, the
\* payment dates, the default rates or the prepay speeds are not populated.
C3_AllFourRequired ==
    (AdjustCall /\ (cf.pmt_cnt = None \/ cf.pmt_date = None \/ cf.default_rate = None
                    \/ cf.prepay_speed = None))
        => call.err # "ok"

\* C3: the recurrence fails, with a TypeError and without assigning total_cf, whenever
\* the scheduled amortization, the default rates or the prepay speeds are not
\* populated; the payment dates are not among the series it reads.
C3_ThreeRequired ==
    (AdjustCall /\ (cf.pmt_cnt = None \/ cf.default_rate = None \/ cf.prepay_speed = None))
        => /\ call.err = "TypeError"
           /\ cf.total_cf = None
           /\ cf.recovery = None

\* the recurrence called with the schedule and the prepay speeds but no default rates
C3_Witness ==
    /\ AdjustCall
    /\ cf.pmt_cnt # None /\ cf.prepay_speed # None /\ cf.pmt_date # None
    /\ cf.default_rate = None
    /\ call.err = "TypeError"

\* the lookups of calc_cashflows that raise: the prepay key (124), the column index
\* (141), the term-grade key (146), the selector's type (150)
LookupFailed(c) == c.op = "calc_cashflows" /\ c.line \in {124, 141, 146, 150}

\* C4 as claimed: a calc_cashflows that fails in a lookup returns no DataFrame and
\* leaves the instance with no series populated by that call.
C4_NothingLeftBehind ==
    [][LookupFailed(call') => (ret' = NoFrame /\ cf' = cf)]_vars

\* C4: a calc_cashflows that fails in a lookup aborts with that error, returns no
\* DataFrame and runs no later step; a failed prepay lookup leaves the instance as it
\* was, a failed charge-off lookup leaves it with the prepay speeds step 1 fetched and
\* nothing else changed.
C4_OnlyPrepayLeftBehind ==
    [][LookupFailed(call') =>
          /\ call'.err \in {"KeyError", "ValueError"}
          /\ ret' = NoFrame
          /\ cf' = [cf EXCEPT !.prepay_speed = cf'.prepay_speed]
          /\ call'.line = 124 => cf' = cf
          /\ call'.line # 124 => cf'.prepay_speed = <<Zero>> \o dropna(PREPAY[Term])]_vars

\* a fresh instance whose charge-off key was not found: the prepay speeds are there,
\* nothing else is
C4_Witness ==
    /\ CalcCall /\ call.err = "KeyError" /\ call.line = 146
    /\ cf.prepay_speed # None
    /\ cf.default_rate = None /\ cf.pmt_date = None /\ cf.pmt_cnt = None /\ cf.total_cf = None

SeriesFields ==
    { "pmt_cnt", "pmt_date", "scheduled_principal", "scheduled_interest", "scheduled_balance",
      "prepay_speed", "default_rate", "balance", "principle", "default", "prepay", "interest",
      "recovery", "servicing_cf", "earout_cf", "total_cf" }

\* C5 as claimed: after a calc_cashflows that returned, every series of the instance
\* has length term + 1.
C5_AllSeriesTermPlusOne == CalcOk => \A f \in SeriesFields : Len(cf[f]) = Term + 1

\* C5: after a calc_cashflows that returned, every series of the instance but
\* default_rate has length term + 1, default_rate is the whole charge-off column (at
\* least term + 1 rows), and every column of the DataFrame has length term + 1.
C5_AllButDefaultRate ==
    CalcOk =>
        /\ \A f \in SeriesFields \ {"default_rate"} : Len(cf[f]) = Term + 1
        /\ Len(cf.default_rate) = Len(CHARGED_OFF.data[1])
        /\ Len(cf.default_rate) >= Term + 1
        /\ \A c \in Columns : Len(ret[c]) = Term + 1

\* a computation that returned on a charge-off column longer than the loan
C5_Witness == CalcOk /\ Len(cf.default_rate) > Term + 1

\* C6: a calc_cashflows with the loan and the multipliers of the last one that
\* returned, on the same instance or a new one, returns too, with the same DataFrame,
\* and leaves the charge-off and prepay tables as they were.
C6_Idempotent ==
    [][(/\ call'.op = "calc_cashflows"
        /\ hist.loan = current
        /\ hist.dm = cf._default_multiplier
        /\ hist.pm = cf._prepay_multiplier)
       => /\ call'.err = "ok"
          /\ ret' = hist.ret
          /\ CHARGED_OFF' = CHARGED_OFF
          /\ PREPAY' = PREPAY]_vars

\* a second computation of the same loan under the same multipliers, with prepayments
\* in it and a prepay multiplier off 1
C6_Witness ==
    /\ CalcOk /\ hist.again
    /\ cf._prepay_multiplier # One
    /\ \E i \in 1..Term : ~IsZero(At(cf.prepay, i))

\* rates that are fractions, unit multipliers, a coupon >= 0 and a positive investment
RealisticRun ==
    /\ InputsReady
    /\ \A j \in 1..Len(cf.default_rate) : IsFraction(cf.default_rate[j])
    /\ \A j \in 1..Len(cf.prepay_speed) : IsFraction(cf.prepay_speed[j])
    /\ cf._default_multiplier = One /\ cf._prepay_multiplier = One
    /\ NonNegative(TheLoan.coupon) /\ Positive(TheLoan.invested)

\* C7 as claimed: under fractional rates, unit multipliers, coupon >= 0 and
\* invested > 0 the balance of every period 1..term is >= 0.
C7_BalanceNeverNegative == RealisticRun => \A i \in 1..Term : NonNegative(At(cf.balance, i))

\* no prepayment, or no coupon and default rate plus prepay speed at most 1 in
\* every period
NoPrepayOrNoCoupon ==
    \/ \A i \in 1..Term : IsZero(At(cf.prepay_speed, i))
    \/ /\ IsZero(TheLoan.coupon)
       /\ \A i \in 1..Term : Leq(Add(At(cf.default_rate, i - 1), At(cf.prepay_speed, i)), One)

\* C7: under fractional rates, unit multipliers, coupon >= 0 and invested > 0 the
\* balance of every period 1..term is >= 0 when every prepay speed is 0, or when the
\* coupon is 0 and default rate plus prepay speed is at most 1 in every period.
C7_BalanceNonNegativeWithoutPrepay ==
    (RealisticRun /\ NoPrepayOrNoCoupon) => \A i \in 1..Term : NonNegative(At(cf.balance, i))

\* a run at a positive coupon without prepayment in which the loan defaults in its
\* last period
C7_Witness ==
    /\ RealisticRun
    /\ Positive(TheLoan.coupon)
    /\ \A i \in 1..Term : IsZero(At(cf.prepay_speed, i))
    /\ Positive(At(cf.default, Term))

\* C8: irr never raises: when the solver converges it returns the rate the solver
\* found, when it does not it logs a warning and returns the estimate the solver
\* stopped at.
C8_IrrAlwaysReturns ==
    call.op = "irr" =>
        /\ irrOut.err = "ok" /\ call.err = "ok"
        /\ irrOut.r = solver.x
        /\ irrOut.warned <=> ~solver.converged

\* an irr call whose solver did not converge, on a cash flow that has no root
C8_Witness ==
    /\ call.op = "irr"
    /\ ~solver.converged
    /\ irrOut.warned
    /\ \A x \in Rates : ~WithinTol(npv(CashFlows[solver.cashflow], x))

\* C9: in calc_cashflows a loan whose charge_off_col_num is a valid column index,
\* the first column included, gets that column as its default rates.
C9_ExplicitColumnWins ==
    (/\ CalcCall
     /\ call.line \notin {124, 128}
     /\ TheLoan.charge_off_col_num.type = "int"
     /\ TheLoan.charge_off_col_num.val \in 0..(Len(CHARGED_OFF.cols) - 1))
        => cf.default_rate = CHARGED_OFF.data[TheLoan.charge_off_col_num.val + 1]

\* the earnout of a recurrence that completed: earnout_fee / 2 * invested in periods
\* 12 and 18, 0 in every other period
EarnoutPaid ==
    /\ call.err = "ok"
    /\ cf.total_cf # None
    /\ \A i \in 0..Term :
           At(cf.earout_cf, i) =
               IF i \in {EARNOUT_PERIOD_1, EARNOUT_PERIOD_2}
               THEN Div(Mul(TheLoan.earnout_fee, TheLoan.invested), OfInt(2))
               ELSE Zero

\* the recurrence failed on the earnout access and assigned no total_cf
EarnoutFailed == call.err = "IndexError" /\ call.line = 211 /\ cf.total_cf = None

\* C10 as claimed: the earnout access is valid exactly for term >= 19.
C10_ValidFromNineteen ==
    InputsReady => IF Term < EARNOUT_PERIOD_2 + 1 THEN EarnoutFailed ELSE EarnoutPaid

\* C10: the earnout access is valid exactly for term >= 18: a shorter term fails on
\* it with an IndexError and no total_cf, a term of 18 or more completes with
\* earnout_fee / 2 * invested in periods 12 and 18 and 0 elsewhere.
C10_ValidFromEighteen ==
    InputsReady => IF Term < EARNOUT_PERIOD_2 THEN EarnoutFailed ELSE EarnoutPaid

\* the recurrence completing on a loan of exactly 18 periods
C10_Witness == InputsReady /\ Term = EARNOUT_PERIOD_2 /\ EarnoutPaid

====
